---- MODULE Spec2Model ----
(***************************************************************************)
(* Model of the metrics derivation pipeline of the Aria surgical-training  *)
(* analyzer: MetricsCalculator (src/src/analysis/metrics_calculator.py)    *)
(* and MPSDataAnalyzer (src/src/analysis/mps_analyzer.py).                 *)
(*                                                                         *)
(* Floating point quantities are fixed-point integers:                     *)
(*   accelerations, angular rates, scores .... 1 unit = 0.01   ("centi")   *)
(*   tremor signal of the IMU ................ 1 unit = 0.0001             *)
(*   wrist positions ......................... 1 unit = 0.001 m (1 mm)     *)
(* Divisions round down, square roots are integer square roots.            *)
(***************************************************************************)
EXTENDS Integers, Sequences, FiniteSets, TLC

VARIABLES
    pc,            \* position inside calculate_session_metrics
    aria_data,     \* the session handed to the calculator
    metrics,       \* the result mapping under construction
    locals,        \* locals of _calculate_motion_metrics worth observing
    first_metrics, \* what the previous call on the same session returned
    hpc,           \* position of the calculate_hand_metrics call
    hand_df,       \* the hand-tracking table handed to the analyzer
    hand_metrics,  \* what calculate_hand_metrics returned
    hand_locals,   \* locals of calculate_hand_metrics worth observing
    dpc,           \* position inside DashboardGenerator.generate_report
    dash_metrics,  \* the metrics mapping handed to the dashboard
    areas,         \* areas and gaps of the improvement areas chart
    recommendations, \* what _generate_recommendations returned
    gpc,           \* position of the calculate_gaze_metrics call
    eye_gaze_df,   \* the eye-gaze table handed to the analyzer
    gaze_metrics,  \* what calculate_gaze_metrics returned
    rpc,           \* position of the generate_mps_report call
    mps_report,    \* what generate_mps_report returned
    bpc,           \* position inside process_batch_recordings
    recording_files, \* the recordings found in the directory
    bi,            \* index of the next recording of the loop
    batch_log,     \* per recording: the steps taken and what was printed
    spc,           \* position inside process_single_recording
    recording,     \* the recording handed to process_single_recording
    mps_data,      \* what load_mps_data returned, "none" when nothing
    step_log       \* the calls process_single_recording has made so far

sessionVars == <<pc, aria_data, metrics, locals, first_metrics>>
handVars == <<hpc, hand_df, hand_metrics, hand_locals>>
dashVars == <<dpc, dash_metrics, areas, recommendations>>
mpsVars == <<gpc, eye_gaze_df, gaze_metrics, rpc, mps_report>>
batchVars == <<bpc, recording_files, bi, batch_log>>
singleVars == <<spc, recording, mps_data, step_log>>
vars == <<pc, aria_data, metrics, locals, first_metrics,
          hpc, hand_df, hand_metrics, hand_locals,
          dpc, dash_metrics, areas, recommendations,
          gpc, eye_gaze_df, gaze_metrics, rpc, mps_report,
          bpc, recording_files, bi, batch_log,
          spc, recording, mps_data, step_log>>

-----------------------------------------------------------------------------
(* Bounds of the model.                                                    *)

\* IMU / frame series lengths 0..ShortLen are enumerated one by one
ShortLen == 2
\* lengths TremorMinSamples-NearLen .. TremorMinSamples+NearLen are enumerated
NearLen == 2
\* a series repeats a pattern of 1..MaxPattern samples
MaxPattern == 2
\* frame counts 0..MaxFrameCount (and the ones around the IMU length)
MaxFrameCount == 3

-----------------------------------------------------------------------------
(* numpy primitives                                                        *)

Max(a, b) == IF a >= b THEN a ELSE b
Min(a, b) == IF a <= b THEN a ELSE b
Abs(a) == IF a < 0 THEN 0 - a ELSE a

RECURSIVE SqrtSearch(_, _, _)
SqrtSearch(n, lo, hi) ==
    IF lo >= hi THEN lo
    ELSE LET mid == (lo + hi + 1) \div 2
         IN  IF mid * mid <= n THEN SqrtSearch(n, mid, hi)
             ELSE SqrtSearch(n, lo, mid - 1)

\* np.sqrt on a non-negative number, rounded down
ISqrt(n) == SqrtSearch(n, 0, 46340)

\* sum of s[lo..hi], halving the range
RECURSIVE SumRange(_, _, _)
SumRange(s, lo, hi) ==
    IF lo > hi THEN 0
    ELSE IF lo = hi THEN s[lo]
    ELSE LET mid == (lo + hi) \div 2
         IN  SumRange(s, lo, mid) + SumRange(s, mid + 1, hi)

\* np.sum
Sum(s) == SumRange(s, 1, Len(s))

\* np.mean of a non-empty array
Mean(s) == Sum(s) \div Len(s)

\* np.var: mean of the squared deviations from the mean
Var(s) ==
    LET m == Mean(s)
    IN  Sum([i \in 1..Len(s) |-> (s[i] - m) * (s[i] - m)]) \div Len(s)

\* np.std
Std(s) == ISqrt(Var(s))

\* np.linalg.norm of a 3-vector
Norm(v) == ISqrt(v[1] * v[1] + v[2] * v[2] + v[3] * v[3])

\* np.abs elementwise
AbsAll(s) == [i \in 1..Len(s) |-> Abs(s[i])]

\* s[i:j] with python's 0-based, end-exclusive, clipped slice
Slice(s, i, j) == SubSeq(s, i + 1, Min(j, Len(s)))

-----------------------------------------------------------------------------
(* scipy.signal: butter(4, Wn, 'hp', output='sos') and sosfilt             *)

\* second-order sections <<b0, b1, b2, a1, a2>>, coefficients times 1000
ButterHp01 == << <<662, -1324, 662, -1480, 556>>,
                 <<1000, -2000, 1000, -1701, 788>> >>

\* one sample through one section, direct form II transposed;
\* st holds the two delay registers and the output so far
BiquadStep(c, st, xi) ==
    LET y == (c[1] * xi + st.z0) \div 1000
    IN  [z0 |-> c[2] * xi - c[4] * y + st.z1,
         z1 |-> c[3] * xi - c[5] * y,
         out |-> Append(st.out, y)]

\* samples lo..hi through one section, in order
RECURSIVE BiquadRange(_, _, _, _, _)
BiquadRange(c, x, lo, hi, st) ==
    IF lo > hi THEN st
    ELSE IF lo = hi THEN BiquadStep(c, st, x[lo])
    ELSE LET mid == (lo + hi) \div 2
             left == BiquadRange(c, x, lo, mid, st)
         IN  \* the left half is computed before the right half starts
             IF Len(left.out) >= 0
             THEN BiquadRange(c, x, mid + 1, hi, left)
             ELSE left

\* one section with zero initial state
Biquad(c, x) ==
    BiquadRange(c, x, 1, Len(x), [z0 |-> 0, z1 |-> 0, out |-> <<>>]).out

\* signal.sosfilt: the sections applied one after the other
Sosfilt(sos, x) == Biquad(sos[2], Biquad(sos[1], x))

-----------------------------------------------------------------------------
(* Sessions: the aria_data mapping built by AriaDetector.load_recording    *)

\* gravity subtracted from every acceleration sample (9.81 m/s^2)
Gravity == <<0, 0, 981>>

\* len(accel_magnitudes) must exceed this for the tremor analysis
TremorMinSamples == 100

\* window of the per-frame tremor mean
TremorWindow == 10

\* IMU samples: at rest, in free fall while turning, shaking, turning
ImuSamples ==
    { [accel |-> <<0, 0, 981>>,   gyro |-> <<0, 0, 0>>],
      [accel |-> <<0, 0, 0>>,     gyro |-> <<0, 0, 100>>],
      [accel |-> <<30, 40, 981>>, gyro |-> <<0, 0, 300>>],
      [accel |-> <<0, 0, 1081>>,  gyro |-> <<60, 80, 0>>] }

Patterns(S) == UNION { [1..n -> S] : n \in 1..MaxPattern }

\* the series of length n that repeats pattern p
Repeat(p, n) == [i \in 1..n |-> p[((i - 1) % Len(p)) + 1]]

ImuLens ==
    (0..ShortLen)
    \cup ((TremorMinSamples - NearLen)..(TremorMinSamples + NearLen))
    \cup {150}

FrameCounts(n) ==
    (0..MaxFrameCount) \cup ({n - 1, n, n + 1} \cap Nat)

\* aria_data as load_recording leaves it; has_imu = FALSE is a mapping
\* without the imu_data key
AriaData(hasImu, imu, frames, numFrames, duration) ==
    [has_imu |-> hasImu, imu_data |-> imu, rgb_frames |-> frames,
     num_frames |-> numFrames, duration |-> duration]

\* sessions for the motion analyzer alone
MotionSessions ==
    { AriaData(TRUE, Repeat(p[1], p[2]), <<>>, nf, 0) :
        p \in Patterns(ImuSamples) \X ImuLens,
        nf \in FrameCounts(150) \cup FrameCounts(TremorMinSamples) }
    \cup { AriaData(FALSE, <<>>, <<>>, nf, 0) : nf \in 0..MaxFrameCount }

-----------------------------------------------------------------------------
(* MetricsCalculator._calculate_motion_metrics                             *)

NoMetrics == [motion |-> <<>>, stability |-> <<>>, stress |-> <<>>,
              performance |-> <<>>]

NoLocals == [gyro_std |-> 0, filtered |-> FALSE, windows |-> 0]

\* variant: an absent measurement reported as a perfect score
MotionDefaultsPerfect ==
    [head_movement_total |-> 0, head_stability_score |-> 1000,
     avg_tremor |-> 0, tremor_per_frame |-> <<>>]

\* the defaults the method starts from
MotionDefaults ==
    [head_movement_total |-> 0, head_stability_score |-> 0,
     avg_tremor |-> 0, tremor_per_frame |-> <<>>]

\* `not aria_data.get('imu_data')`
NoImuData(d) == ~d.has_imu \/ Len(d.imu_data) = 0

GyroMagnitudes(imu) == [i \in 1..Len(imu) |-> Norm(imu[i].gyro)]

AccelMagnitudes(imu) ==
    [i \in 1..Len(imu) |->
        Norm(<<imu[i].accel[1] - Gravity[1],
               imu[i].accel[2] - Gravity[2],
               imu[i].accel[3] - Gravity[3]>>)]

\* variant: the score without its clamp at 0
HeadStabilityScoreUnclamped(gyroStd) == 1000 - gyroStd * 10

\* max(0, 10 - gyro_std * 10), in centi
HeadStabilityScore(gyroStd) == Max(0, 1000 - gyroStd * 10)

\* the guard of the tremor analysis
TremorAnalysed(n) == n > TremorMinSamples

\* sosfilt(butter(4, 0.1, 'hp'), accel_magnitudes), in units of 0.0001
TremorSignal(accelMags) ==
    Sosfilt(ButterHp01, [i \in 1..Len(accelMags) |-> accelMags[i] * 100])

\* one entry of the list comprehension, i the 0-based start of the window
TremorEntry(t, i) ==
    IF i + TremorWindow < Len(t)
    THEN Mean(AbsAll(Slice(t, i, i + TremorWindow)))
    ELSE 0

\* range(0, len, step) mapped through TremorEntry
TremorWindows(t, step) ==
    [k \in 1..((Len(t) + step - 1) \div step) |-> TremorEntry(t, (k - 1) * step)]

\* the list comprehension and its [:num_frames]; num_frames > 0
TremorPerFrame(t, numFrames) ==
    LET all == TremorWindows(t, Max(1, Len(t) \div numFrames))
    IN  SubSeq(all, 1, Min(numFrames, Len(all)))

\* the method's result on a session with IMU data and num_frames usable
MotionMetrics(d) ==
    LET gyro == GyroMagnitudes(d.imu_data)
        accel == AccelMagnitudes(d.imu_data)
        base == [MotionDefaults EXCEPT
                    !.head_movement_total = Sum(gyro),
                    !.head_stability_score = HeadStabilityScore(Std(gyro))]
    IN  IF TremorAnalysed(Len(accel))
        THEN LET t == TremorSignal(accel)
             IN  [base EXCEPT !.avg_tremor = Mean(AbsAll(t)),
                              !.tremor_per_frame = TremorPerFrame(t, d.num_frames)]
        ELSE base

MotionLocals(d) ==
    LET n == Len(d.imu_data)
    IN  [gyro_std |-> Std(GyroMagnitudes(d.imu_data)),
         filtered |-> TremorAnalysed(n),
         windows |-> IF TremorAnalysed(n) /\ d.num_frames > 0
                     THEN (n + Max(1, n \div d.num_frames) - 1)
                              \div Max(1, n \div d.num_frames)
                     ELSE 0]

\* len(tremor_signal) // num_frames raises ZeroDivisionError
MotionRaises(d) ==
    /\ ~NoImuData(d)
    /\ TremorAnalysed(Len(d.imu_data))
    /\ d.num_frames = 0

CalculateMotionMetrics ==
    /\ pc = "motion"
    /\ IF NoImuData(aria_data)
       THEN /\ metrics' = [metrics EXCEPT !.motion = MotionDefaults]
            /\ locals' = NoLocals
            /\ pc' = "stability"
       ELSE IF MotionRaises(aria_data)
       THEN /\ pc' = "raised"
            /\ UNCHANGED <<metrics, locals>>
       ELSE /\ metrics' = [metrics EXCEPT !.motion = MotionMetrics(aria_data)]
            /\ locals' = MotionLocals(aria_data)
            /\ pc' = "stability"
    /\ UNCHANGED <<aria_data, first_metrics>>

-----------------------------------------------------------------------------
(* MetricsCalculator._calculate_stability_metrics                          *)

\* a frame is [dims, px]: dims = 2 holds one intensity per pixel, dims = 3
\* holds a triple of channel intensities per pixel
FrameKinds ==
    { [dims |-> 2, px |-> <<0, 0>>],
      [dims |-> 2, px |-> <<100, 20>>],
      [dims |-> 2, px |-> <<255, 255>>],
      [dims |-> 3, px |-> << <<30, 60, 90>>, <<0, 0, 0>> >>],
      [dims |-> 3, px |-> << <<255, 255, 255>>, <<10, 20, 30>> >>] }

\* frame sequences of one camera: every frame has the same shape
FrameSeqs ==
    UNION { { f \in [1..n -> FrameKinds] :
                \A i \in 1..n : f[i].dims = f[1].dims } : n \in 0..(ShortLen + 1) }

\* frame pairs beyond this index are not compared
MaxComparedFrames == 50

\* variant: an unmeasured stability reported as a perfect score
StabilityDefaultsPerfect ==
    [focus_score |-> 0, visual_stability |-> 1000, frame_jitter |-> 0]

StabilityDefaults == [focus_score |-> 0, visual_stability |-> 0, frame_jitter |-> 0]

\* np.mean(frame, axis=2) when the first frame of the pair is 3-D, in centi
Gray(frame, threeD) ==
    IF threeD
    THEN [k \in 1..Len(frame.px) |->
            ((frame.px[k][1] + frame.px[k][2] + frame.px[k][3]) * 100) \div 3]
    ELSE [k \in 1..Len(frame.px) |-> frame.px[k] * 100]

\* np.mean(np.abs(gray1 - gray2))
FrameDiff(frame1, frame2) ==
    LET g1 == Gray(frame1, frame1.dims = 3)
        g2 == Gray(frame2, frame1.dims = 3)
    IN  Mean([k \in 1..Len(g1) |-> Abs(g1[k] - g2[k])])

\* variant: every consecutive pair compared, without the cap
FrameDiffsAll(frames) ==
    [i \in 1..(Len(frames) - 1) |-> FrameDiff(frames[i], frames[i + 1])]

\* for i in range(1, min(len(frames), 50))
FrameDiffs(frames) ==
    [i \in 1..(Min(Len(frames), MaxComparedFrames) - 1) |->
        FrameDiff(frames[i], frames[i + 1])]

StabilityMetrics(frames) ==
    IF Len(frames) < 2 THEN StabilityDefaults
    ELSE LET jitter == Std(FrameDiffs(frames))
         IN  [focus_score |-> 750,
              visual_stability |-> Max(0, 1000 - jitter \div 10),
              frame_jitter |-> jitter]

CalculateStabilityMetrics ==
    /\ pc = "stability"
    /\ metrics' = [metrics EXCEPT !.stability = StabilityMetrics(aria_data.rgb_frames)]
    /\ pc' = "stress"
    /\ UNCHANGED <<aria_data, locals, first_metrics>>

-----------------------------------------------------------------------------
(* MetricsCalculator._calculate_stress_metrics                             *)

\* draws of np.random.randint(-5, 15)
RandHeartOffsets == {0 - 5, 0, 14}
\* draws of np.random.uniform(30, 60), in centi
RandVariabilities == {3000, 5999}
\* draws of np.random.uniform(5, 8), in centi
RandPeaks == {500, 799}

\* [np.var(sample['accel']) for sample in imu_data], 1 unit = 0.01
AccelVars(imu) == [i \in 1..Len(imu) |-> Var(imu[i].accel) \div 100]

StressFromMotion(imu) ==
    LET avg_var == Mean(AccelVars(imu))
    IN  [avg_heart_rate |-> 70 + (avg_var * 50) \div 100,
         heart_rate_variability |-> Std(AccelVars(imu)) * 100,
         peak_stress_level |-> Min(1000, avg_var * 100),
         stress_correlation |-> <<>>]

CalculateStressMetrics ==
    /\ pc = "stress"
    /\ IF NoImuData(aria_data)
       THEN \E r \in RandHeartOffsets, v \in RandVariabilities, k \in RandPeaks :
               metrics' = [metrics EXCEPT !.stress =
                              [avg_heart_rate |-> 75 + r,
                               heart_rate_variability |-> v,
                               peak_stress_level |-> k,
                               stress_correlation |-> <<>>]]
       ELSE metrics' = [metrics EXCEPT !.stress = StressFromMotion(aria_data.imu_data)]
    /\ pc' = "performance"
    /\ UNCHANGED <<aria_data, locals, first_metrics>>

-----------------------------------------------------------------------------
(* MetricsCalculator._calculate_performance_score                          *)

\* variant: consistency without its clamp at 0
PerformanceScoreUnclamped(m) ==
    LET technical == (m.motion.head_stability_score
                        + m.stability.visual_stability) \div 2
        stress == Max(0, 1000 - m.stress.peak_stress_level)
        consistency == 1000 - (m.motion.avg_tremor
                                 + m.stability.frame_jitter \div 10)
    IN  [overall_score |-> technical * 4 + stress * 3 + consistency * 3,
         technical_skill |-> technical,
         stress_management |-> stress,
         consistency |-> consistency]

PerformanceScore(m) ==
    LET technical == (m.motion.head_stability_score
                        + m.stability.visual_stability) \div 2
        stress == Max(0, 1000 - m.stress.peak_stress_level)
        consistency == Max(0, 1000 - (m.motion.avg_tremor
                                        + m.stability.frame_jitter \div 10))
    IN  [overall_score |-> technical * 4 + stress * 3 + consistency * 3,
         technical_skill |-> technical,
         stress_management |-> stress,
         consistency |-> consistency]

CalculatePerformanceScore ==
    /\ pc = "performance"
    /\ metrics' = [metrics EXCEPT !.performance = PerformanceScore(metrics)]
    /\ pc' = "done"
    /\ UNCHANGED <<aria_data, locals, first_metrics>>

\* the caller hands the same session to calculate_session_metrics once more
CallAgain ==
    /\ pc = "done"
    /\ first_metrics = NoMetrics
    /\ first_metrics' = metrics
    /\ metrics' = NoMetrics
    /\ locals' = NoLocals
    /\ pc' = "motion"
    /\ UNCHANGED aria_data

-----------------------------------------------------------------------------
(* Floating point values that may be NaN (columns read by pandas)          *)

NaN == [nan |-> TRUE, v |-> 0]
Fl(v) == [nan |-> FALSE, v |-> v]

FSub(a, b) == IF a.nan \/ b.nan THEN NaN ELSE Fl(a.v - b.v)
FAdd(a, b) == IF a.nan \/ b.nan THEN NaN ELSE Fl(a.v + b.v)
FMul(a, b) == IF a.nan \/ b.nan THEN NaN ELSE Fl(a.v * b.v)
FSqrt(a) == IF a.nan THEN NaN ELSE Fl(ISqrt(a.v))
\* comparisons with NaN are false, `!=` with NaN is true
FGt(a, b) == ~a.nan /\ ~b.nan /\ a.v > b.v
FNe(a, b) == a.nan \/ b.nan \/ a.v # b.v

AnyNaN(s) == \E i \in 1..Len(s) : s[i].nan
Values(s) == [i \in 1..Len(s) |-> s[i].v]

\* np.sum, np.mean, np.var, .max() and .min() propagate NaN
FSum(s) == IF AnyNaN(s) THEN NaN ELSE Fl(Sum(Values(s)))
FMean(s) == IF AnyNaN(s) THEN NaN ELSE Fl(Mean(Values(s)))
FVar(s) == IF AnyNaN(s) THEN NaN ELSE Fl(Var(Values(s)))
FExtent(s) ==
    IF AnyNaN(s) THEN NaN
    ELSE LET vs == {s[i].v : i \in 1..Len(s)}
         IN  Fl((CHOOSE hi \in vs : \A w \in vs : hi >= w)
                - (CHOOSE lo \in vs : \A w \in vs : lo <= w))

\* python's max(0, x): x only when x > 0
PyMax0(x) == IF FGt(x, Fl(0)) THEN x ELSE Fl(0)

\* np.diff
FDiff(s) == [i \in 1..(Len(s) - 1) |-> FSub(s[i + 1], s[i])]

-----------------------------------------------------------------------------
(* Hand tracks: the table built by MPSDataAnalyzer._load_hand_tracking     *)

\* fewer valid frames than this return early
MinValidFrames == 10

\* len(velocities) must exceed this for the hand tremor filter
HandTremorMinSamples == 100

\* a row: the wrist position in mm; the timestamp and confidence columns
\* are functions of the row index (Timestamp, Confidence)
Row(x, y, z) == [x |-> x, y |-> y, z |-> z]

\* trajectories of a tracked wrist: at rest, along x, back and forth,
\* in the x-y plane, out and back, along the bisector of x and y (steps
\* whose length is not a whole number of mm)
Trajectories == {"static", "line", "zigzag", "diagonal", "return", "oblique"}

TrajectoryRow(kind, i, n) ==
    CASE kind = "static"   -> Row(Fl(100), Fl(200), Fl(300))
      [] kind = "line"     -> Row(Fl(100 + 10 * i), Fl(200), Fl(300))
      [] kind = "zigzag"   -> Row(Fl(100 + 10 * (i % 2)), Fl(200), Fl(300))
      [] kind = "diagonal" -> Row(Fl(100 + 3 * i), Fl(200 + 4 * i), Fl(300))
      [] kind = "return"   -> Row(Fl(100 + 10 * Min(i, n - 1 - i)), Fl(200), Fl(300))
      [] kind = "oblique"  -> Row(Fl(100 + 10 * i), Fl(200 + 10 * i), Fl(300))

\* rows the tracker marks as lost, or that are damaged in one axis only
SpecialRows ==
    { Row(NaN, NaN, NaN),
      Row(Fl(0 - 1000), Fl(0 - 1000), Fl(0 - 1000)),
      Row(Fl(0), Fl(0), Fl(0)),
      Row(Fl(0), Fl(210), Fl(310)),
      Row(Fl(120), NaN, Fl(300)),
      Row(Fl(120), Fl(200), Fl(0 - 1000)),
      Row(Fl(120), Fl(0), Fl(300)) }

InsertAt(s, k, r) == SubSeq(s, 1, k) \o <<r>> \o SubSeq(s, k + 1, Len(s))

TrackLens ==
    (0..ShortLen)
    \cup ((MinValidFrames - NearLen)..(MinValidFrames + NearLen))
    \cup {HandTremorMinSamples + k : k \in 0..NearLen}

PlainTrack(kind, n) == [i \in 1..n |-> TrajectoryRow(kind, i - 1, n)]

\* a trajectory, possibly with one special row at its start, middle or end
TrackRows ==
    { PlainTrack(c[1], c[2]) : c \in Trajectories \X TrackLens }
    \cup
    UNION { { InsertAt(PlainTrack(c[1], c[2]), k, c[3]) :
                k \in {0, c[2] \div 2, c[2]} } :
            c \in Trajectories \X TrackLens \X SpecialRows }

\* np.linspace((0,0,0), (1,0,0), 20): 20 equally spaced samples, in mm
LinspaceTrack == [i \in 1..20 |-> Row(Fl(((i - 1) * 1000) \div 19), Fl(0), Fl(0))]

\* the column sets a table may carry besides the wrist columns
HandDf(isNone, hasWrist, hasTs, hasConf, rows) ==
    [is_none |-> isNone, has_wrist |-> hasWrist, has_ts |-> hasTs,
     has_conf |-> hasConf, rows |-> rows]

HandTracks ==
    { HandDf(FALSE, w, t, c, rows) :
        w \in BOOLEAN, t \in BOOLEAN, c \in BOOLEAN,
        rows \in TrackRows \cup {LinspaceTrack} }
    \cup { HandDf(TRUE, FALSE, FALSE, FALSE, <<>>) }

\* timestamp column: 10 Hz, in ticks of 0.1 s
Timestamp(i) == 1000 + i
\* confidence column, in centi
Confidence(i) == 90 - (i % 3)

-----------------------------------------------------------------------------
(* MPSDataAnalyzer.calculate_hand_metrics                                  *)

ButterHp02 == << <<433, -866, 433, -1049, 296>>,
                 <<1000, -2000, 1000, -1321, 633>> >>

\* (~np.isnan(wrist_x)) & (wrist_x != -1) & (wrist_x != 0)
ValidMask(row) ==
    /\ ~row.x.nan
    /\ FNe(row.x, Fl(0 - 1000))
    /\ FNe(row.x, Fl(0))

\* wrist_x[valid_mask], wrist_y[valid_mask], wrist_z[valid_mask]
ValidRows(rows) == SelectSeq(rows, ValidMask)

\* variant: the displacement within the x-y plane only
DistancesPlanar(rows) ==
    LET dx == FDiff([i \in 1..Len(rows) |-> rows[i].x])
        dy == FDiff([i \in 1..Len(rows) |-> rows[i].y])
    IN  [i \in 1..Len(dx) |-> FSqrt(FAdd(FMul(dx[i], dx[i]), FMul(dy[i], dy[i])))]

\* np.sqrt(dx**2 + dy**2 + dz**2), in mm
Distances(rows) ==
    LET dx == FDiff([i \in 1..Len(rows) |-> rows[i].x])
        dy == FDiff([i \in 1..Len(rows) |-> rows[i].y])
        dz == FDiff([i \in 1..Len(rows) |-> rows[i].z])
    IN  [i \in 1..Len(dx) |->
            FSqrt(FAdd(FAdd(FMul(dx[i], dx[i]), FMul(dy[i], dy[i])),
                       FMul(dz[i], dz[i])))]

\* distances * 10, in mm/s
Velocities(distances) == [i \in 1..Len(distances) |-> FMul(distances[i], Fl(10))]

\* the guard of the hand tremor filter
HandTremorAnalysed(n) == n > HandTremorMinSamples

\* mean(|sosfilt(butter(4, 0.2, 'hp'), velocities)|), 1 unit = 0.0001 m/s
HandTremor(velocities) ==
    IF HandTremorAnalysed(Len(velocities))
    THEN IF AnyNaN(velocities) THEN NaN
         ELSE Fl(Mean(AbsAll(Sosfilt(ButterHp02,
                    [i \in 1..Len(velocities) |-> velocities[i].v * 10]))))
    ELSE Fl(0)

\* variant: the norm of the end position, the start not subtracted
StraightLineDistFromOrigin(rows) ==
    LET b == rows[Len(rows)]
    IN  FSqrt(FAdd(FAdd(FMul(b.x, b.x), FMul(b.y, b.y)), FMul(b.z, b.z)))

\* np.linalg.norm(end_pos - start_pos), in mm
StraightLineDist(rows) ==
    LET a == rows[1]
        b == rows[Len(rows)]
        dx == FSub(b.x, a.x)
        dy == FSub(b.y, a.y)
        dz == FSub(b.z, a.z)
    IN  FSqrt(FAdd(FAdd(FMul(dx, dx), FMul(dy, dy)), FMul(dz, dz)))

\* variant: the quotient without the guard against an empty path
EfficiencyUnguarded(straight, total) ==
    IF straight.nan \/ total.nan \/ total.v = 0 THEN NaN
    ELSE Fl((straight.v * 1000) \div total.v)

\* straight_line_dist / np.sum(distances) if np.sum(distances) > 0 else 0,
\* in milli
Efficiency(straight, total) ==
    IF FGt(total, Fl(0))
    THEN IF straight.nan THEN NaN ELSE Fl((straight.v * 1000) \div total.v)
    ELSE Fl(0)

\* the keys written inside `if has_wrist:`
PositionMetrics(rows) ==
    LET distances == Distances(rows)
        velocities == Velocities(distances)
        variance == FVar(velocities)
        xs == [i \in 1..Len(rows) |-> rows[i].x]
        ys == [i \in 1..Len(rows) |-> rows[i].y]
        zs == [i \in 1..Len(rows) |-> rows[i].z]
    IN  [path_length_m |-> FSum(distances),
         avg_speed_m_s |-> FMul(FMean(distances), Fl(10)),
         velocity_variance |-> variance,
         smoothness_score |-> PyMax0(FSub(Fl(10000), variance)),
         hand_tremor |-> HandTremor(velocities),
         workspace_volume_m3 |-> FMul(FMul(FExtent(xs), FExtent(ys)), FExtent(zs)),
         efficiency |-> Efficiency(StraightLineDist(rows), FSum(distances))]

\* (end_time - start_time) / 1e6 over all rows of the table, in ms
TaskDuration(rows) ==
    [task_duration_s |-> Fl((Timestamp(Len(rows)) - Timestamp(1)) * 100)]

\* hand_df['confidence'].mean()
AvgConfidence(rows) ==
    [avg_confidence |-> Fl(Mean([i \in 1..Len(rows) |-> Confidence(i)]))]

Empty == [k \in {} |-> Fl(0)]

\* the mapping calculate_hand_metrics returns
HandMetrics(df) ==
    IF df.is_none \/ Len(df.rows) = 0 THEN Empty
    ELSE IF df.has_wrist /\ Len(ValidRows(df.rows)) < MinValidFrames THEN Empty
    ELSE (IF df.has_wrist THEN PositionMetrics(ValidRows(df.rows)) ELSE Empty)
         @@ (IF df.has_ts THEN TaskDuration(df.rows) ELSE Empty)
         @@ (IF df.has_conf THEN AvgConfidence(df.rows) ELSE Empty)

NoHandLocals == [valid_count |-> 0, used |-> <<>>]

HandLocals(df) ==
    IF df.is_none \/ Len(df.rows) = 0 \/ ~df.has_wrist THEN NoHandLocals
    ELSE [valid_count |-> Len(ValidRows(df.rows)),
          used |-> IF Len(ValidRows(df.rows)) < MinValidFrames THEN <<>>
                   ELSE ValidRows(df.rows)]

CalculateHandMetrics ==
    /\ hpc = "call"
    /\ hand_metrics' = HandMetrics(hand_df)
    /\ hand_locals' = HandLocals(hand_df)
    /\ hpc' = "returned"
    /\ UNCHANGED hand_df

HandIdle ==
    /\ hpc = "idle"
    /\ hand_df = HandDf(TRUE, FALSE, FALSE, FALSE, <<>>)
    /\ hand_metrics = Empty
    /\ hand_locals = NoHandLocals

SessionIdle ==
    /\ pc = "idle"
    /\ aria_data = AriaData(FALSE, <<>>, <<>>, 0, 0)
    /\ metrics = NoMetrics
    /\ locals = NoLocals
    /\ first_metrics = NoMetrics

-----------------------------------------------------------------------------
(* DashboardGenerator: the metrics mapping handed to generate_report       *)
(* Scores, efficiency and path length are in units of 0.001, hand tremor   *)
(* in units of 0.0001.                                                     *)

\* comparisons with NaN are false
FLt(a, b) == ~a.nan /\ ~b.nan /\ a.v < b.v

\* head_stability_score of the motion category (0 is the no-IMU default)
HeadValues == {0, 7000, 8000, 9000, 10000}
\* visual_stability of the stability category
VisualValues == {0, 8500, 10000}
\* gaze_stability of the eye_tracking category
GazeValues == {7000, 8000}

\* the position-derived keys of a hand_tracking mapping the dashboard reads
HandPositionMappings ==
    { [path_length_m |-> p, smoothness_score |-> Fl(s),
       efficiency |-> Fl(e), hand_tremor |-> t] :
        p \in {Fl(3000), Fl(4000), NaN},
        s \in {4000, 5000, 7000, 9000},
        e \in {200, 300, 400, 1000},
        t \in {Fl(30), Fl(45), Fl(100), Fl(200), NaN} }

\* hand_tracking as process_single_recording stores it: empty, without the
\* position keys (a table without wrist columns), or with all of them
HandMappings ==
    {Empty} \cup {[avg_confidence |-> Fl(900)]} \cup HandPositionMappings

\* eye_tracking: empty or the result of calculate_gaze_metrics
EyeMappings == {Empty} \cup { [gaze_stability |-> Fl(g)] : g \in GazeValues }

\* the categories of the mapping; hand_tracking and eye_tracking exist only
\* when MPS data was loaded
\* has_imu tells whether the session had IMU samples: without them the
\* motion analyzer has returned its default head_stability_score of 0
DashMetrics(hasImu, head, visual, hasHand, hand, hasEye, eye) ==
    [has_imu |-> hasImu,
     head_stability_score |-> Fl(head), visual_stability |-> Fl(visual),
     has_hand |-> hasHand, hand_tracking |-> hand,
     has_eye |-> hasEye, eye_tracking |-> eye]

\* the head score of a session: any value with IMU samples, the default
\* without
ReportMetrics ==
    LET HeadScores == { <<TRUE, h>> : h \in HeadValues } \cup { <<FALSE, 0>> }
    IN  { DashMetrics(hs[1], hs[2], v, TRUE, ht, TRUE, et) :
            hs \in HeadScores, v \in VisualValues,
            ht \in HandMappings, et \in EyeMappings }
        \cup { DashMetrics(hs[1], hs[2], v, FALSE, Empty, FALSE, Empty) :
            hs \in HeadScores, v \in VisualValues }

\* dict.get(key, 0)
Get(mapping, key) == IF key \in DOMAIN mapping THEN mapping[key] ELSE Fl(0)

\* `'hand_tracking' in metrics and metrics['hand_tracking']`
Truthy(present, mapping) == present /\ DOMAIN mapping # {}

\* an optional list entry
Opt(cond, entry) == IF cond THEN <<entry>> ELSE <<>>

-----------------------------------------------------------------------------
(* DashboardGenerator._create_improvement_areas_chart                      *)

\* EXPERT_BENCHMARKS
ExpertBenchmarks ==
    [head_stability |-> 9500, visual_stability |-> 9000, gaze_stability |-> 9500,
     path_length_m |-> 1500, smoothness_score |-> 8000, hand_tremor |-> 30,
     efficiency |-> 600, avg_tremor |-> 300]

Area(name, gap) == [area |-> name, gap |-> gap]

\* (tremor_current - expert) / expert * 2, in 0.001
TremorGap(tremor) ==
    IF tremor.nan THEN NaN
    ELSE Fl(((tremor.v - ExpertBenchmarks.hand_tremor) * 2000)
                \div ExpertBenchmarks.hand_tremor)

\* the three gaps computed inside `if 'hand_tracking' in metrics and ...`
HandAreas(ht) ==
    LET smooth_gap == FSub(Fl(ExpertBenchmarks.smoothness_score),
                           Get(ht, "smoothness_score"))
        eff_gap == FSub(Fl(ExpertBenchmarks.efficiency), Get(ht, "efficiency"))
        tremor_gap == TremorGap(Get(ht, "hand_tremor"))
    IN  Opt(FGt(smooth_gap, Fl(1000)), Area("Hand Smoothness", smooth_gap))
        \o Opt(FGt(eff_gap, Fl(200)),
               Area("Movement Efficiency", FMul(eff_gap, Fl(10))))
        \o Opt(FGt(tremor_gap, Fl(1000)),
               Area("Hand Tremor", Fl(Min(tremor_gap.v, 10000))))

\* areas and gaps, in the order they are appended
ImprovementAreas(m) ==
    LET head_gap == FSub(Fl(ExpertBenchmarks.head_stability), m.head_stability_score)
        visual_gap == FSub(Fl(ExpertBenchmarks.visual_stability), m.visual_stability)
    IN  Opt(FGt(head_gap, Fl(500)), Area("Head Stability", head_gap))
        \o Opt(FGt(visual_gap, Fl(500)), Area("Visual Stability", visual_gap))
        \o (IF Truthy(m.has_hand, m.hand_tracking)
            THEN HandAreas(m.hand_tracking) ELSE <<>>)

CreateImprovementAreasChart ==
    /\ dpc = "chart"
    /\ areas' = ImprovementAreas(dash_metrics)
    /\ dpc' = "html"
    /\ UNCHANGED <<dash_metrics, recommendations>>

-----------------------------------------------------------------------------
(* DashboardGenerator._generate_recommendations                            *)

Rec(priority, area) == [priority |-> priority, area |-> area]

\* variant: a path length at the limit counts as too long
PathLengthTriggersInclusive(path_length) ==
    ~path_length.nan /\ path_length.v >= 3000

\* path_length > 3.0
PathLengthTriggers(path_length) == FGt(path_length, Fl(3000))

\* the four rules on the hand_tracking mapping
HandRecommendations(ht) ==
    Opt(PathLengthTriggers(Get(ht, "path_length_m")), Rec("HIGH", "Path Length"))
    \o Opt(FLt(Get(ht, "smoothness_score"), Fl(5000)),
           Rec("HIGH", "Movement Smoothness"))
    \o Opt(FLt(Get(ht, "efficiency"), Fl(300)),
           Rec("MEDIUM", "Movement Efficiency"))
    \o Opt(FGt(Get(ht, "hand_tremor"), Fl(100)), Rec("MEDIUM", "Hand Tremor"))

\* the list before it is sorted
UnsortedRecommendations(m) ==
    (IF Truthy(m.has_hand, m.hand_tracking)
     THEN HandRecommendations(m.hand_tracking) ELSE <<>>)
    \o Opt(FLt(m.head_stability_score, Fl(8000)), Rec("MEDIUM", "Head Stability"))
    \o (IF Truthy(m.has_eye, m.eye_tracking)
        THEN Opt(FLt(Get(m.eye_tracking, "gaze_stability"), Fl(8000)),
                 Rec("LOW", "Gaze Stability"))
        ELSE <<>>)

\* variant: the most urgent entries sorted last
PriorityOrderReversed(priority) ==
    CASE priority = "HIGH" -> 2 [] priority = "MEDIUM" -> 1 [] priority = "LOW" -> 0

\* priority_order
PriorityOrder(priority) ==
    CASE priority = "HIGH" -> 0 [] priority = "MEDIUM" -> 1 [] priority = "LOW" -> 2

\* entry r placed behind every entry of the sorted list s whose key is not
\* larger: a stable insertion
RECURSIVE InsertByPriority(_, _)
InsertByPriority(s, r) ==
    IF s = <<>> THEN <<r>>
    ELSE IF PriorityOrder(s[Len(s)].priority) <= PriorityOrder(r.priority)
    THEN Append(s, r)
    ELSE Append(InsertByPriority(SubSeq(s, 1, Len(s) - 1), r), s[Len(s)])

\* list.sort(key=...), which is stable
RECURSIVE SortByPriority(_)
SortByPriority(s) ==
    IF s = <<>> THEN <<>>
    ELSE InsertByPriority(SortByPriority(SubSeq(s, 1, Len(s) - 1)), s[Len(s)])

GenerateRecommendations ==
    /\ dpc = "html"
    /\ recommendations' = SortByPriority(UnsortedRecommendations(dash_metrics))
    /\ dpc' = "done"
    /\ UNCHANGED <<dash_metrics, areas>>

DashboardIdle ==
    /\ dpc = "idle"
    /\ dash_metrics = DashMetrics(FALSE, 0, 0, FALSE, Empty, FALSE, Empty)
    /\ areas = <<>>
    /\ recommendations = <<>>

-----------------------------------------------------------------------------
(* Gaze tracks: the table built by MPSDataAnalyzer._load_eye_gaze          *)
(* Angles are in units of 0.001 rad, depths in mm; the tables have no      *)
(* missing cells.                                                          *)

\* gaze tables of 0..MaxGazeLen rows are enumerated
MaxGazeLen == 3

GazeRow(pitch, leftYaw, rightYaw, depth) ==
    [pitch_rads_cpf |-> pitch, left_yaw_rads_cpf |-> leftYaw,
     right_yaw_rads_cpf |-> rightYaw, depth_m |-> depth]

\* looking ahead, a pitch change of exactly 0.1 rad, a larger one with the
\* eyes turning, the eyes converging
GazeSamples ==
    { GazeRow(0, 0, 0, 500),
      GazeRow(100, 0, 0, 1000),
      GazeRow(250, 300, 300, 500),
      GazeRow(0, 400, 0 - 400, 2000) }

GazeDf(isNone, rows) == [is_none |-> isNone, rows |-> rows]

GazeTables ==
    { GazeDf(FALSE, rows) :
        rows \in UNION { [1..n -> GazeSamples] : n \in 0..MaxGazeLen } }
    \cup { GazeDf(TRUE, <<>>) }

-----------------------------------------------------------------------------
(* pandas.Series statistics                                                *)

Column(rows, name) == [i \in 1..Len(rows) |-> rows[i][name]]

\* Series.mean(): NaN for an empty series
SeriesMean(s) == IF Len(s) = 0 THEN NaN ELSE Fl(Mean(s))

\* Series.var(): the sample variance (ddof = 1), NaN below two values
SeriesVar(s) ==
    IF Len(s) < 2 THEN NaN
    ELSE LET m == Mean(s)
         IN  Fl(Sum([i \in 1..Len(s) |-> (s[i] - m) * (s[i] - m)])
                    \div (Len(s) - 1))

\* Series.std()
SeriesStd(s) == FSqrt(SeriesVar(s))

\* Series.diff().abs() without its leading NaN, which mean() and `>` skip
AbsDiff(s) == [i \in 1..(Len(s) - 1) |-> Abs(s[i + 1] - s[i])]

-----------------------------------------------------------------------------
(* MPSDataAnalyzer.calculate_gaze_metrics                                  *)

\* a pitch change above this many 0.001 rad is a saccade
SaccadeThreshold == 100

\* variant: only an absent table counts as empty
NoGazeRowsNoneOnly(df) == df.is_none

\* `eye_gaze_df is None or len(eye_gaze_df) == 0`
NoGazeRows(df) == df.is_none \/ Len(df.rows) = 0

\* max(0, 10 - gaze_variance * 100), in 0.001; the variance in 1e-6 rad^2
GazeStability(rows) ==
    LET pitch_var == SeriesVar(Column(rows, "pitch_rads_cpf"))
        left_yaw_var == SeriesVar(Column(rows, "left_yaw_rads_cpf"))
        right_yaw_var == SeriesVar(Column(rows, "right_yaw_rads_cpf"))
        total == FAdd(FAdd(pitch_var, left_yaw_var), right_yaw_var)
        gaze_variance == IF total.nan THEN NaN ELSE Fl(total.v \div 3)
    IN  PyMax0(FSub(Fl(10000),
                    IF gaze_variance.nan THEN NaN ELSE Fl(gaze_variance.v \div 10)))

\* 1.0 / (1.0 + depth.std()), in 0.001
GazeFocusConsistency(rows) ==
    LET std == SeriesStd(Column(rows, "depth_m"))
    IN  IF std.nan THEN NaN ELSE Fl(1000000 \div (1000 + std.v))

\* (pitch_diff.mean() + yaw_diff.mean()) / 2, in 0.001 rad
AvgGazeShift(rows) ==
    LET pitch_diff == AbsDiff(Column(rows, "pitch_rads_cpf"))
        yaw == [i \in 1..Len(rows) |->
                  (rows[i].left_yaw_rads_cpf + rows[i].right_yaw_rads_cpf) \div 2]
        total == FAdd(SeriesMean(pitch_diff), SeriesMean(AbsDiff(yaw)))
    IN  IF total.nan THEN NaN ELSE Fl(total.v \div 2)

\* variant: a change of exactly the threshold counts as a saccade
SaccadeCountInclusive(rows) ==
    LET pitch_diff == AbsDiff(Column(rows, "pitch_rads_cpf"))
    IN  Cardinality({i \in 1..Len(pitch_diff) : pitch_diff[i] >= SaccadeThreshold})

\* (pitch_diff > 0.1).sum()
SaccadeCount(rows) ==
    LET pitch_diff == AbsDiff(Column(rows, "pitch_rads_cpf"))
    IN  Cardinality({i \in 1..Len(pitch_diff) : pitch_diff[i] > SaccadeThreshold})

\* variant: the rate taken over the n - 1 intervals between the samples
SaccadesPerSecondPerInterval(rows) ==
    IF Len(rows) < 2 THEN NaN
    ELSE Fl((SaccadeCount(rows) * 10000) \div (Len(rows) - 1))

\* count / (len / 10), in 0.001 per second; 0/0.0 of numpy is NaN
SaccadesPerSecond(rows) ==
    IF Len(rows) = 0 THEN NaN
    ELSE Fl((SaccadeCount(rows) * 10000) \div Len(rows))

\* the mapping calculate_gaze_metrics returns
GazeMetrics(df) ==
    IF NoGazeRows(df) THEN Empty
    ELSE [gaze_stability |-> GazeStability(df.rows),
          avg_gaze_depth_m |-> SeriesMean(Column(df.rows, "depth_m")),
          gaze_focus_consistency |-> GazeFocusConsistency(df.rows),
          avg_gaze_shift |-> AvgGazeShift(df.rows),
          saccades_per_second |-> SaccadesPerSecond(df.rows)]

CalculateGazeMetrics ==
    /\ gpc = "call"
    /\ gaze_metrics' = GazeMetrics(eye_gaze_df)
    /\ gpc' = "returned"
    /\ UNCHANGED <<eye_gaze_df, rpc, mps_report>>

-----------------------------------------------------------------------------
(* MPSDataAnalyzer.generate_mps_report                                     *)

NoReport == [eye_tracking |-> Empty, hand_tracking |-> Empty, combined |-> Empty]

\* mps_data['eye_gaze'] and mps_data['hand_tracking'] are the two tables
MpsReport(eyeGaze, handTracking) ==
    [eye_tracking |-> IF ~eyeGaze.is_none THEN GazeMetrics(eyeGaze) ELSE Empty,
     hand_tracking |-> IF ~handTracking.is_none THEN HandMetrics(handTracking)
                       ELSE Empty,
     combined |-> Empty]

GenerateMpsReport ==
    /\ rpc = "call"
    /\ mps_report' = MpsReport(eye_gaze_df, hand_df)
    /\ rpc' = "returned"
    /\ UNCHANGED <<eye_gaze_df, gpc, gaze_metrics>>

MpsIdle ==
    /\ gpc = "idle"
    /\ rpc = "idle"
    /\ eye_gaze_df = GazeDf(TRUE, <<>>)
    /\ gaze_metrics = Empty
    /\ mps_report = NoReport

-----------------------------------------------------------------------------
(* main.process_single_recording and main.process_batch_recordings         *)

\* a directory holds 0..MaxRecordings recordings
MaxRecordings == 3

\* what happens to a recording: its file is gone when it is opened, the
\* loader returns None, the metrics computation raises, the report
\* generation raises, or everything succeeds
RecordingKinds == {"missing", "unloadable", "metrics_raise", "report_raise", "ok"}

\* list(Path(recordings_dir).glob("*.vrs"))
RecordingLists == UNION { [1..n -> RecordingKinds] : n \in 0..MaxRecordings }

\* process_single_recording: the steps it takes and whether it raises
ProcessSingleRecording(kind) ==
    CASE kind = "missing" ->
            [steps |-> <<>>, raised |-> FALSE]
      [] kind = "unloadable" ->
            [steps |-> <<"load">>, raised |-> FALSE]
      [] kind = "metrics_raise" ->
            [steps |-> <<"load", "metrics">>, raised |-> TRUE]
      [] kind = "report_raise" ->
            [steps |-> <<"load", "metrics", "report">>, raised |-> TRUE]
      [] kind = "ok" ->
            [steps |-> <<"load", "metrics", "report">>, raised |-> FALSE]

\* variant: an exception leaves the loop
AfterRecordingAbort(raised, i, n) ==
    IF raised THEN "aborted"
    ELSE IF i < n THEN "loop" ELSE "banner"

\* where the loop goes after recording i of n: `except Exception` has
\* caught whatever was raised
AfterRecording(raised, i, n) == IF i < n THEN "loop" ELSE "banner"

\* glob and the early return of an empty directory
ScanDirectory ==
    /\ bpc = "scan"
    /\ bpc' = IF Len(recording_files) = 0 THEN "returned" ELSE "loop"
    /\ UNCHANGED <<recording_files, bi, batch_log>>

\* one iteration of the for loop: the try block and its except clause
ProcessNextRecording ==
    /\ bpc = "loop"
    /\ LET result == ProcessSingleRecording(recording_files[bi])
       IN  /\ batch_log' = Append(batch_log,
                  [recording |-> bi, steps |-> result.steps,
                   printed |-> IF result.raised THEN "error" ELSE "success"])
           /\ bpc' = AfterRecording(result.raised, bi, Len(recording_files))
    /\ bi' = bi + 1
    /\ UNCHANGED recording_files

\* print("Batch Processing Complete!")
PrintBatchComplete ==
    /\ bpc = "banner"
    /\ bpc' = "complete"
    /\ UNCHANGED <<recording_files, bi, batch_log>>

BatchIdle ==
    /\ bpc = "idle"
    /\ recording_files = <<>>
    /\ bi = 1
    /\ batch_log = <<>>

-----------------------------------------------------------------------------
(* process_single_recording (src/src/main.py), call by call                *)

\* a recording and what its processing will meet: whether the path exists,
\* what the loader returns ("none" also when it caught an exception), the
\* MPS folder (absent, loading, or raising while loading), whether the
\* metrics, the MPS report, the viewer or the report generation raise, and
\* the --visualize flag
Recordings ==
    [exists : BOOLEAN,
     loader : {"none", "data"},
     mps_folder : {"absent", "loads", "raises"},
     metrics_raise : BOOLEAN,
     mps_report_raises : BOOLEAN,
     visualize : BOOLEAN,
     visualize_raises : BOOLEAN,
     report_raises : BOOLEAN]

\* variant: a loader result of None is not looked at
AfterLoadUnchecked(loaded) == "mps"

\* if aria_data is None: return
AfterLoad(loaded) == IF loaded = "none" THEN "returned" ELSE "mps"

\* if not os.path.exists(recording_path): return
CheckPath ==
    /\ spc = "start"
    /\ spc' = IF recording.exists THEN "load" ELSE "returned"
    /\ UNCHANGED <<recording, mps_data, step_log>>

\* aria_data = detector.load_recording(recording_path)
LoadRecording ==
    /\ spc = "load"
    /\ step_log' = Append(step_log, "load")
    /\ spc' = AfterLoad(recording.loader)
    /\ UNCHANGED <<recording, mps_data>>

\* step 1.5: load_mps_data inside try/except when the MPS folder exists
LoadMpsData ==
    /\ spc = "mps"
    /\ IF recording.mps_folder = "absent"
       THEN UNCHANGED <<mps_data, step_log>>
       ELSE /\ step_log' = Append(step_log, "load_mps")
            /\ mps_data' = IF recording.mps_folder = "loads" THEN "data" ELSE "none"
    /\ spc' = "metrics"
    /\ UNCHANGED recording

\* metrics = metrics_calc.calculate_session_metrics(aria_data)
CalculateSessionMetrics ==
    /\ spc = "metrics"
    /\ step_log' = Append(step_log, "metrics")
    /\ spc' = IF recording.metrics_raise THEN "raised" ELSE "mps_report"
    /\ UNCHANGED <<recording, mps_data>>

\* if mps_data: generate_mps_report and merge its two mappings
AddMpsMetrics ==
    /\ spc = "mps_report"
    /\ IF mps_data = "none"
       THEN /\ spc' = "visualize"
            /\ UNCHANGED step_log
       ELSE /\ step_log' = Append(step_log, "mps_report")
            /\ spc' = IF recording.mps_report_raises THEN "raised" ELSE "visualize"
    /\ UNCHANGED <<recording, mps_data>>

\* if visualize: detector.visualize_with_rerun(aria_data, metrics)
Visualize ==
    /\ spc = "visualize"
    /\ IF recording.visualize
       THEN /\ step_log' = Append(step_log, "visualize")
            /\ spc' = IF recording.visualize_raises THEN "raised" ELSE "report"
       ELSE /\ spc' = "report"
            /\ UNCHANGED step_log
    /\ UNCHANGED <<recording, mps_data>>

\* report_path = dashboard_gen.generate_report(...)
GenerateReport ==
    /\ spc = "report"
    /\ step_log' = Append(step_log, "report")
    /\ spc' = IF recording.report_raises THEN "raised" ELSE "summary"
    /\ UNCHANGED <<recording, mps_data>>

\* the closing banner and print_metrics_summary(metrics)
PrintSummary ==
    /\ spc = "summary"
    /\ spc' = "returned"
    /\ UNCHANGED <<recording, mps_data, step_log>>

SingleIdle ==
    /\ spc = "idle"
    /\ recording = [exists |-> FALSE, loader |-> "none", mps_folder |-> "absent",
                    metrics_raise |-> FALSE, mps_report_raises |-> FALSE,
                    visualize |-> FALSE, visualize_raises |-> FALSE,
                    report_raises |-> FALSE]
    /\ mps_data = "none"
    /\ step_log = <<>>

InitSingle ==
    /\ spc = "start"
    /\ recording \in Recordings
    /\ mps_data = "none"
    /\ step_log = <<>>
    /\ SessionIdle
    /\ HandIdle
    /\ DashboardIdle
    /\ MpsIdle
    /\ BatchIdle

NextSingle ==
    \/ CheckPath /\ UNCHANGED <<sessionVars, handVars, dashVars, mpsVars, batchVars>>
    \/ LoadRecording /\ UNCHANGED <<sessionVars, handVars, dashVars, mpsVars, batchVars>>
    \/ LoadMpsData /\ UNCHANGED <<sessionVars, handVars, dashVars, mpsVars, batchVars>>
    \/ CalculateSessionMetrics /\ UNCHANGED <<sessionVars, handVars, dashVars, mpsVars, batchVars>>
    \/ AddMpsMetrics /\ UNCHANGED <<sessionVars, handVars, dashVars, mpsVars, batchVars>>
    \/ Visualize /\ UNCHANGED <<sessionVars, handVars, dashVars, mpsVars, batchVars>>
    \/ GenerateReport /\ UNCHANGED <<sessionVars, handVars, dashVars, mpsVars, batchVars>>
    \/ PrintSummary /\ UNCHANGED <<sessionVars, handVars, dashVars, mpsVars, batchVars>>

SpecSingle == InitSingle /\ [][NextSingle]_vars

-----------------------------------------------------------------------------
(* The hand analyzer on its own                                            *)

InitHand ==
    /\ hpc = "call"
    /\ hand_df \in HandTracks
    /\ hand_metrics = Empty
    /\ hand_locals = NoHandLocals
    /\ SessionIdle
    /\ DashboardIdle
    /\ MpsIdle
    /\ BatchIdle
    /\ SingleIdle

NextHand ==
    CalculateHandMetrics /\ UNCHANGED <<sessionVars, dashVars, mpsVars, batchVars, singleVars>>

SpecHand == InitHand /\ [][NextHand]_vars

-----------------------------------------------------------------------------
(* The motion analyzer on its own                                          *)

InitMotion ==
    /\ pc = "motion"
    /\ aria_data \in MotionSessions
    /\ metrics = NoMetrics
    /\ locals = NoLocals
    /\ first_metrics = NoMetrics
    /\ HandIdle
    /\ DashboardIdle
    /\ MpsIdle
    /\ BatchIdle
    /\ SingleIdle

NextMotion ==
    CalculateMotionMetrics /\ UNCHANGED <<handVars, dashVars, mpsVars, batchVars, singleVars>>

SpecMotion == InitMotion /\ [][NextMotion]_vars

-----------------------------------------------------------------------------
(* DashboardGenerator.generate_report: the chart of improvement areas and  *)
(* the recommendations of the HTML report                                  *)

InitDashboard ==
    /\ dpc = "chart"
    /\ dash_metrics \in ReportMetrics
    /\ areas = <<>>
    /\ recommendations = <<>>
    /\ SessionIdle
    /\ HandIdle
    /\ MpsIdle
    /\ BatchIdle
    /\ SingleIdle

NextDashboard ==
    \/ CreateImprovementAreasChart
          /\ UNCHANGED <<sessionVars, handVars, mpsVars, batchVars, singleVars>>
    \/ GenerateRecommendations
          /\ UNCHANGED <<sessionVars, handVars, mpsVars, batchVars, singleVars>>

-----------------------------------------------------------------------------
(* The MPS analyzer: both calculators called directly and through          *)
(* generate_mps_report, on the same pair of tables                         *)

\* hand tables of the MPS runs: absent, without rows, short, long enough
MpsHandTracks ==
    { HandDf(FALSE, w, t, c, rows) :
        w \in BOOLEAN, t \in BOOLEAN, c \in BOOLEAN,
        rows \in { PlainTrack("line", n) : n \in {0, ShortLen, MinValidFrames} } }
    \cup { HandDf(TRUE, FALSE, FALSE, FALSE, <<>>) }

InitMps ==
    /\ gpc = "call"
    /\ rpc = "call"
    /\ hpc = "call"
    /\ eye_gaze_df \in GazeTables
    /\ hand_df \in MpsHandTracks
    /\ gaze_metrics = Empty
    /\ hand_metrics = Empty
    /\ hand_locals = NoHandLocals
    /\ mps_report = NoReport
    /\ SessionIdle
    /\ DashboardIdle
    /\ BatchIdle
    /\ SingleIdle

NextMps ==
    \/ CalculateGazeMetrics
          /\ UNCHANGED <<sessionVars, handVars, dashVars, batchVars, singleVars>>
    \/ CalculateHandMetrics
          /\ UNCHANGED <<sessionVars, dashVars, mpsVars, batchVars, singleVars>>
    \/ GenerateMpsReport
          /\ UNCHANGED <<sessionVars, handVars, dashVars, batchVars, singleVars>>

SpecMps == InitMps /\ [][NextMps]_vars

-----------------------------------------------------------------------------
(* Batch mode                                                              *)

InitBatch ==
    /\ bpc = "scan"
    /\ recording_files \in RecordingLists
    /\ bi = 1
    /\ batch_log = <<>>
    /\ SessionIdle
    /\ HandIdle
    /\ DashboardIdle
    /\ MpsIdle
    /\ SingleIdle

NextBatch ==
    \/ ScanDirectory /\ UNCHANGED <<sessionVars, handVars, dashVars, mpsVars, singleVars>>
    \/ ProcessNextRecording /\ UNCHANGED <<sessionVars, handVars, dashVars, mpsVars, singleVars>>
    \/ PrintBatchComplete /\ UNCHANGED <<sessionVars, handVars, dashVars, mpsVars, singleVars>>

\* the loop is sequential code: it keeps running while it can
SpecBatch == InitBatch /\ [][NextBatch]_vars /\ WF_vars(NextBatch)

SpecDashboard == InitDashboard /\ [][NextDashboard]_vars

-----------------------------------------------------------------------------
(* The stability analyzer on its own, on frame series around the cap of    *)
(* compared frames                                                         *)

\* frames of a slowly changing scene
SceneFrameKinds ==
    { [dims |-> 2, px |-> <<0, 0>>],
      [dims |-> 2, px |-> <<100, 20>>],
      [dims |-> 2, px |-> <<60, 60>>],
      [dims |-> 3, px |-> << <<30, 60, 90>>, <<0, 0, 0>> >>],
      [dims |-> 3, px |-> << <<10, 20, 30>>, <<30, 30, 30>> >>] }

\* frame patterns of one camera
FramePatterns ==
    UNION { { f \in [1..n -> SceneFrameKinds] :
                \A i \in 1..n : f[i].dims = f[1].dims } : n \in 1..(MaxPattern + 1) }

\* n frames: pattern p repeated over the first MaxComparedFrames frames,
\* frame q from there on
FrameSeries(p, q, n) ==
    [i \in 1..n |-> IF i > MaxComparedFrames THEN q ELSE p[((i - 1) % Len(p)) + 1]]

\* sessions of a few frames and of about MaxComparedFrames frames
StabilitySessions ==
    { AriaData(FALSE, <<>>, FrameSeries(c[1], c[2], c[3]), c[3], (c[3] * 100) \div 30) :
        c \in { d \in FramePatterns \X SceneFrameKinds \X
                        ((0..(ShortLen + 1))
                         \cup ((MaxComparedFrames - NearLen)..(MaxComparedFrames + NearLen))) :
                    d[2].dims = d[1][1].dims } }

InitStability ==
    /\ pc = "stability"
    /\ aria_data \in StabilitySessions
    /\ metrics = NoMetrics
    /\ locals = NoLocals
    /\ first_metrics = NoMetrics
    /\ HandIdle
    /\ DashboardIdle
    /\ MpsIdle
    /\ BatchIdle
    /\ SingleIdle

NextStability ==
    CalculateStabilityMetrics /\ UNCHANGED <<handVars, dashVars, mpsVars, batchVars, singleVars>>

SpecStability == InitStability /\ [][NextStability]_vars

-----------------------------------------------------------------------------
(* MetricsCalculator.calculate_session_metrics on whole sessions           *)

\* IMU series of the whole-session runs: none, one sample, just enough
\* samples for the tremor analysis
SessionImu ==
    { Repeat(p, n) : p \in [1..1 -> ImuSamples],
                     n \in {0, 1, TremorMinSamples + 1} }

\* load_recording estimates duration = num_frames / 30 (centi-seconds)
Sessions ==
    { AriaData(TRUE, imu, frames, nf, (nf * 100) \div 30) :
        imu \in SessionImu, frames \in FrameSeqs, nf \in 0..MaxFrameCount }
    \cup
    { AriaData(FALSE, <<>>, frames, nf, (nf * 100) \div 30) :
        frames \in FrameSeqs, nf \in 0..MaxFrameCount }

Init ==
    /\ pc = "motion"
    /\ aria_data \in Sessions
    /\ metrics = NoMetrics
    /\ locals = NoLocals
    /\ first_metrics = NoMetrics
    /\ HandIdle
    /\ DashboardIdle
    /\ MpsIdle
    /\ BatchIdle
    /\ SingleIdle

Next ==
    \/ CalculateMotionMetrics /\ UNCHANGED <<handVars, dashVars, mpsVars, batchVars, singleVars>>
    \/ CalculateStabilityMetrics /\ UNCHANGED <<handVars, dashVars, mpsVars, batchVars, singleVars>>
    \/ CalculateStressMetrics /\ UNCHANGED <<handVars, dashVars, mpsVars, batchVars, singleVars>>
    \/ CalculatePerformanceScore /\ UNCHANGED <<handVars, dashVars, mpsVars, batchVars, singleVars>>
    \/ CallAgain /\ UNCHANGED <<handVars, dashVars, mpsVars, batchVars, singleVars>>

Spec == Init /\ [][Next]_vars

-----------------------------------------------------------------------------
(* Properties of the motion analyzer and of calculate_session_metrics      *)

MotionReturned == pc \in {"stability", "stress", "performance", "done"}

HasImuSamples == aria_data.has_imu /\ Len(aria_data.imu_data) > 0

\* all samples of the series identical
Stationary(imu) == \A i \in 1..Len(imu) : imu[i] = imu[1]

\* C1: calculate_session_metrics never raises on a well-typed session and
\* its result holds the four categories motion, stability, stress and
\* performance.
C1_SessionMetricsNeverRaise ==
    /\ pc # "raised"
    /\ pc = "done" =>
          /\ DOMAIN metrics = {"motion", "stability", "stress", "performance"}
          /\ \A c \in DOMAIN metrics : metrics[c] # <<>>

\* C2: without IMU data (key absent or empty sequence) the motion analyzer
\* does not fail and returns exactly the four default fields 0, 0, 0, <<>>.
C2_NoImuGivesDefaults ==
    (~aria_data.has_imu \/ aria_data.imu_data = <<>>) =>
        /\ pc # "raised"
        /\ MotionReturned =>
              /\ DOMAIN metrics.motion =
                    {"head_movement_total", "head_stability_score",
                     "avg_tremor", "tremor_per_frame"}
              /\ metrics.motion.head_movement_total = 0
              /\ metrics.motion.head_stability_score = 0
              /\ metrics.motion.avg_tremor = 0
              /\ metrics.motion.tremor_per_frame = <<>>

C2_Witness ==
    /\ pc = "stability"
    /\ aria_data.has_imu
    /\ aria_data.imu_data = <<>>
    /\ metrics.motion # <<>>

\* C3: for a non-empty IMU series head_stability_score is
\* max(0, 10 - 10*std): within [0,10], exactly 10 at std = 0, 0 for every
\* std >= 1, and no larger std gives a larger score.
C3_HeadStabilityScore ==
    (MotionReturned /\ HasImuSamples) =>
        LET score == metrics.motion.head_stability_score
            std == locals.gyro_std
        IN  /\ score >= 0 /\ score <= 1000
            /\ std = 0 => score = 1000
            /\ std >= 100 => score = 0
            /\ std < 100 => score = 1000 - 10 * std
            /\ \A other \in 0..300 :
                  other >= std => HeadStabilityScore(other) <= score

C3_Witness ==
    /\ MotionReturned /\ HasImuSamples
    /\ locals.gyro_std > 100
    /\ metrics.motion.head_stability_score = 0

\* C4: tremor is computed from the filtered series exactly when the IMU
\* series has at least 100 samples; shorter series give avg_tremor = 0 and
\* an empty tremor_per_frame.
C4_TremorFilteredFrom100 ==
    (MotionReturned /\ HasImuSamples) =>
        /\ locals.filtered <=> Len(aria_data.imu_data) >= 100
        /\ Len(aria_data.imu_data) < 100 =>
              /\ metrics.motion.avg_tremor = 0
              /\ metrics.motion.tremor_per_frame = <<>>

\* C5: whenever tremor is computed, tremor_per_frame has exactly num_frames
\* entries for every num_frames >= 1 (truncated or padded).
C5_TremorPerFrameLength ==
    (MotionReturned /\ locals.filtered /\ aria_data.num_frames >= 1) =>
        Len(metrics.motion.tremor_per_frame) = aria_data.num_frames

\* C6: every stationary IMU series long enough to be filtered has
\* avg_tremor = 0; with gyro (0,0,0) it also has head_movement_total = 0
\* and head_stability_score = 10.
C6_StationaryHasNoTremor ==
    (MotionReturned /\ locals.filtered /\ Stationary(aria_data.imu_data)) =>
        /\ metrics.motion.avg_tremor = 0
        /\ aria_data.imu_data[1].gyro = <<0, 0, 0>> =>
              /\ metrics.motion.head_movement_total = 0
              /\ metrics.motion.head_stability_score = 1000

SessionReturned == pc = "done"

StabilityReturned == pc \in {"stress", "performance", "done"}

\* C16: overall_score = 10*(0.4*technical_skill + 0.3*stress_management
\* + 0.3*consistency) with technical_skill = (head_stability_score +
\* visual_stability)/2, stress_management = max(0, 10 - peak_stress_level)
\* and consistency = max(0, 10 - (100*avg_tremor + frame_jitter/10)); the
\* three components lie in [0,10] and overall_score in [0,100].
C16_OverallScore ==
    SessionReturned =>
        LET p == metrics.performance
            raw_stress == 1000 - metrics.stress.peak_stress_level
            raw_consistency == 1000 - (metrics.motion.avg_tremor
                                         + metrics.stability.frame_jitter \div 10)
        IN  /\ p.technical_skill = (metrics.motion.head_stability_score
                                      + metrics.stability.visual_stability) \div 2
            /\ p.stress_management = (IF raw_stress > 0 THEN raw_stress ELSE 0)
            /\ p.consistency = (IF raw_consistency > 0 THEN raw_consistency ELSE 0)
            /\ p.overall_score = 4 * p.technical_skill + 3 * p.stress_management
                                    + 3 * p.consistency
            /\ \A c \in {"technical_skill", "stress_management", "consistency"} :
                  p[c] >= 0 /\ p[c] <= 1000
            /\ p.overall_score >= 0 /\ p.overall_score <= 10000

\* tremor and jitter large enough for the clamp of consistency to act
C16_Witness ==
    /\ SessionReturned
    /\ metrics.motion.avg_tremor + metrics.stability.frame_jitter \div 10 > 1000
    /\ metrics.performance.consistency = 0
    /\ metrics.performance.overall_score > 0

\* C17: a second call of calculate_session_metrics on the same session
\* returns the same result as the first, with or without IMU data.
C17_SameSessionSameResult ==
    (SessionReturned /\ first_metrics # NoMetrics) => metrics = first_metrics

\* C19: with fewer than 2 frames the stability analyzer returns
\* focus_score = 0, visual_stability = 0 and frame_jitter = 0; with 2 or
\* more frames visual_stability = max(0, 10 - frame_jitter/10), within
\* [0,10].
C19_FewFramesGiveZeros ==
    StabilityReturned =>
        LET st == metrics.stability
            raw == 1000 - st.frame_jitter \div 10
        IN  /\ Len(aria_data.rgb_frames) < 2 =>
                  /\ st.focus_score = 0
                  /\ st.visual_stability = 0
                  /\ st.frame_jitter = 0
            /\ Len(aria_data.rgb_frames) >= 2 =>
                  /\ st.visual_stability = (IF raw > 0 THEN raw ELSE 0)
                  /\ st.visual_stability >= 0 /\ st.visual_stability <= 1000

\* a single frame
C19_Witness ==
    /\ pc = "stress"
    /\ Len(aria_data.rgb_frames) = 1
    /\ metrics.stability = [focus_score |-> 0, visual_stability |-> 0,
                            frame_jitter |-> 0]

-----------------------------------------------------------------------------
(* Properties of the hand analyzer                                         *)

HandReturned == hpc = "returned"

PositionKeys ==
    {"path_length_m", "avg_speed_m_s", "velocity_variance", "smoothness_score",
     "hand_tremor", "workspace_volume_m3", "efficiency"}

\* the validity rule of the data model: a sample is invalid when an axis is
\* NaN or -1, or when its position is exactly zero
SampleValid(row) ==
    /\ ~row.x.nan /\ ~row.y.nan /\ ~row.z.nan
    /\ row.x.v # 0 - 1000 /\ row.y.v # 0 - 1000 /\ row.z.v # 0 - 1000
    /\ ~(row.x.v = 0 /\ row.y.v = 0 /\ row.z.v = 0)

ValidSamples(rows) == Len(SelectSeq(rows, SampleValid))

WristTrack == ~hand_df.is_none /\ hand_df.has_wrist

\* C7: a track with wrist columns and fewer than 10 valid samples returns no
\* position-derived key, but avg_confidence whenever the confidence column
\* exists and task_duration_s whenever the timestamp column exists.
C7_ShortTrackKeepsConfidenceAndDuration ==
    (HandReturned /\ WristTrack /\ Len(hand_df.rows) > 0
        /\ ValidSamples(hand_df.rows) < 10) =>
        /\ DOMAIN hand_metrics \cap PositionKeys = {}
        /\ hand_df.has_conf => "avg_confidence" \in DOMAIN hand_metrics
        /\ hand_df.has_ts => "task_duration_s" \in DOMAIN hand_metrics

\* C8: a track with fewer than 10 valid samples yields the empty mapping,
\* whatever other columns it carries.
C8_ShortTrackGivesEmptyMapping ==
    (HandReturned /\ WristTrack /\ ValidSamples(hand_df.rows) < 10) =>
        DOMAIN hand_metrics = {}

\* C9: a sample with NaN or -1 in any axis, or with a position of exactly
\* zero, is excluded from the valid count and from the position metrics;
\* every other sample is counted.
C9_InvalidSamplesExcluded ==
    (HandReturned /\ WristTrack /\ Len(hand_df.rows) > 0) =>
        /\ hand_locals.valid_count = ValidSamples(hand_df.rows)
        /\ \A i \in 1..Len(hand_locals.used) : SampleValid(hand_locals.used[i])

\* C10: a reported efficiency is a number >= 0, never NaN, and it is 0 when
\* path_length_m is 0.
C10_EfficiencyIsDefined ==
    (HandReturned /\ "efficiency" \in DOMAIN hand_metrics) =>
        /\ ~hand_metrics["efficiency"].nan
        /\ hand_metrics["efficiency"].v >= 0
        /\ hand_metrics["path_length_m"] = Fl(0) =>
              hand_metrics["efficiency"] = Fl(0)

C10_Witness ==
    /\ HandReturned
    /\ "efficiency" \in DOMAIN hand_metrics
    /\ hand_locals.valid_count >= 10
    /\ hand_metrics["path_length_m"] = Fl(0)
    /\ hand_metrics["efficiency"] = Fl(0)

\* the values of one axis do not change
Constant(c) == \A i \in 1..Len(c) : ~c[i].nan /\ c[i] = c[1]

\* the values of one axis never turn back, and the last differs from the first
Monotone(c) ==
    /\ \A i \in 1..Len(c) : ~c[i].nan
    /\ \/ \A i \in 1..(Len(c) - 1) : c[i].v <= c[i + 1].v
       \/ \A i \in 1..(Len(c) - 1) : c[i].v >= c[i + 1].v
    /\ c[1] # c[Len(c)]

\* movement along one axis only, without backtracking
MonotoneSingleAxis(rows) ==
    LET xs == [i \in 1..Len(rows) |-> rows[i].x]
        ys == [i \in 1..Len(rows) |-> rows[i].y]
        zs == [i \in 1..Len(rows) |-> rows[i].z]
    IN  \/ Monotone(xs) /\ Constant(ys) /\ Constant(zs)
        \/ Constant(xs) /\ Monotone(ys) /\ Constant(zs)
        \/ Constant(xs) /\ Constant(ys) /\ Monotone(zs)

C12_LinspaceScenario ==
    (HandReturned /\ WristTrack /\ hand_df.rows = LinspaceTrack) =>
        /\ hand_locals.valid_count = 20
        /\ hand_metrics["path_length_m"] = Fl(1000)
        /\ hand_metrics["efficiency"] = Fl(1000)

-----------------------------------------------------------------------------
(* Properties of the dashboard                                             *)

RecommendationsReturned == dpc = "done"

\* number of entries of the list about one area with one priority
Entries(list, priority, area) ==
    Cardinality({i \in 1..Len(list) :
                    list[i].area = area /\ list[i].priority = priority})

\* number of entries of the list about one area
EntriesAbout(list, area) ==
    Cardinality({i \in 1..Len(list) : list[i].area = area})

\* one entry of that priority when the rule is triggered, none otherwise
ListedIff(list, priority, area, triggered) ==
    /\ EntriesAbout(list, area) = (IF triggered THEN 1 ELSE 0)
    /\ Entries(list, priority, area) = EntriesAbout(list, area)

HandKeyPresent(key) ==
    /\ dash_metrics.has_hand
    /\ key \in DOMAIN dash_metrics.hand_tracking

\* C13: for the metrics present in the result the list holds exactly one
\* entry per triggered rule and none for an untriggered one: path length
\* above 3.0 HIGH, smoothness below 5.0 HIGH, efficiency below 0.3 MEDIUM,
\* hand tremor above 0.01 MEDIUM, head stability below 8.0 MEDIUM, gaze
\* stability below 8.0 LOW; a value at its threshold triggers nothing and
\* a path length of 4.0 is listed as HIGH.
C13_RecommendationRules ==
    RecommendationsReturned =>
        LET ht == dash_metrics.hand_tracking
            et == dash_metrics.eye_tracking
            list == recommendations
        IN  /\ HandKeyPresent("path_length_m") =>
                  /\ ListedIff(list, "HIGH", "Path Length",
                        ~ht["path_length_m"].nan /\ ht["path_length_m"].v > 3000)
                  /\ ht["path_length_m"] = Fl(4000) =>
                        Entries(list, "HIGH", "Path Length") = 1
                  /\ ht["path_length_m"] = Fl(3000) =>
                        EntriesAbout(list, "Path Length") = 0
            /\ HandKeyPresent("smoothness_score") =>
                  ListedIff(list, "HIGH", "Movement Smoothness",
                            ht["smoothness_score"].v < 5000)
            /\ HandKeyPresent("efficiency") =>
                  ListedIff(list, "MEDIUM", "Movement Efficiency",
                            ht["efficiency"].v < 300)
            /\ HandKeyPresent("hand_tremor") =>
                  ListedIff(list, "MEDIUM", "Hand Tremor",
                            ~ht["hand_tremor"].nan /\ ht["hand_tremor"].v > 100)
            /\ ListedIff(list, "MEDIUM", "Head Stability",
                         dash_metrics.head_stability_score.v < 8000)
            /\ (dash_metrics.has_eye /\ "gaze_stability" \in DOMAIN et) =>
                  ListedIff(list, "LOW", "Gaze Stability",
                            et["gaze_stability"].v < 8000)

\* all six rules triggered at once
C13_Witness ==
    /\ RecommendationsReturned
    /\ dash_metrics.has_hand
    /\ "path_length_m" \in DOMAIN dash_metrics.hand_tracking
    /\ dash_metrics.hand_tracking["path_length_m"] = Fl(4000)
    /\ Len(recommendations) = 6
    /\ recommendations[1] = Rec("HIGH", "Path Length")

\* the order in which the rules are written
RuleOrder ==
    <<"Path Length", "Movement Smoothness", "Movement Efficiency",
      "Hand Tremor", "Head Stability", "Gaze Stability">>

RuleIndex(area) == CHOOSE k \in 1..Len(RuleOrder) : RuleOrder[k] = area

\* C14: the returned list is ordered by priority, HIGH before MEDIUM before
\* LOW, and entries of equal priority keep the order of the rules.
C14_RecommendationsOrdered ==
    RecommendationsReturned =>
        \A i, j \in 1..Len(recommendations) :
            i < j =>
                LET a == recommendations[i]
                    b == recommendations[j]
                IN  /\ b.priority = "HIGH" => a.priority = "HIGH"
                    /\ b.priority = "MEDIUM" => a.priority \in {"HIGH", "MEDIUM"}
                    /\ a.priority = b.priority =>
                          RuleIndex(a.area) < RuleIndex(b.area)

\* entries of all three priorities, two of them of equal priority
C14_Witness ==
    /\ RecommendationsReturned
    /\ \E i, j, k, l \in 1..Len(recommendations) :
          /\ i < j /\ j < k /\ k < l
          /\ recommendations[i].priority = "HIGH"
          /\ recommendations[j].priority = "MEDIUM"
          /\ recommendations[k].priority = "MEDIUM"
          /\ recommendations[l].priority = "LOW"

ChartDrawn == dpc \in {"html", "done"}

\* the area is charted with this gap when the gap exceeds the threshold,
\* and not charted otherwise
ChartedIff(area, gap, threshold) ==
    IF gap > threshold
    THEN \E i \in 1..Len(areas) : areas[i] = Area(area, Fl(gap))
    ELSE \A i \in 1..Len(areas) : areas[i].area # area

\* C15: every tracked metric has the gap expert - current (current - expert
\* for path_length_m and hand_tremor); it is left out of the priority
\* training areas when the gap does not exceed its threshold and listed
\* with that gap when it does, path_length_m included. The thresholds are
\* 0.5 for the two stability scores, 1.0 for smoothness, 0.2 for
\* efficiency, 0.0015 for hand tremor and 1.5 for the path length (the
\* distance of the HIGH limit 3.0 from the benchmark).
C15_BenchmarkGaps ==
    ChartDrawn =>
        LET ht == dash_metrics.hand_tracking
        IN  /\ ChartedIff("Head Stability",
                          9500 - dash_metrics.head_stability_score.v, 500)
            /\ ChartedIff("Visual Stability",
                          9000 - dash_metrics.visual_stability.v, 500)
            /\ HandKeyPresent("smoothness_score") =>
                  ChartedIff("Hand Smoothness", 8000 - ht["smoothness_score"].v, 1000)
            /\ HandKeyPresent("efficiency") =>
                  ChartedIff("Movement Efficiency", 600 - ht["efficiency"].v, 200)
            /\ (HandKeyPresent("hand_tremor") /\ ~ht["hand_tremor"].nan) =>
                  ChartedIff("Hand Tremor", ht["hand_tremor"].v - 30, 15)
            /\ (HandKeyPresent("path_length_m") /\ ~ht["path_length_m"].nan) =>
                  ChartedIff("Path Length", ht["path_length_m"].v - 1500, 1500)

-----------------------------------------------------------------------------
(* Properties of batch mode                                                *)

\* the recordings handled so far are 1, 2, ... in list order, each once,
\* and a recording that raised was reported as an error
ProcessedInOrder ==
    /\ bpc # "aborted"
    /\ Len(batch_log) <= Len(recording_files)
    /\ \A k \in 1..Len(batch_log) :
          /\ batch_log[k].recording = k
          /\ recording_files[k] \in {"metrics_raise", "report_raise"} =>
                batch_log[k].printed = "error"
    /\ bpc \in {"banner", "complete"} => Len(batch_log) = Len(recording_files)

\* C18: in batch mode every recording found is processed exactly once, in
\* list order; an exception raised by recording i is caught and reported,
\* the recordings after it are still processed, and a batch that has
\* recordings always reaches its completion step.
C18_BatchIsolatesFailures ==
    /\ []ProcessedInOrder
    /\ (bpc = "loop") ~> (bpc = "complete" /\ Len(batch_log) = Len(recording_files))

\* the first of several recordings raised and the batch completed
C18_Witness ==
    /\ bpc = "complete"
    /\ Len(recording_files) >= 2
    /\ recording_files[1] = "metrics_raise"
    /\ batch_log[1].printed = "error"
    /\ batch_log[Len(batch_log)].recording = Len(recording_files)

-----------------------------------------------------------------------------
(* Properties of the MPS analyzer                                          *)

\* C20: calculate_gaze_metrics and calculate_hand_metrics return the empty
\* mapping when their table is None or has no rows, and generate_mps_report
\* leaves eye_tracking / hand_tracking empty when the table is None.
C20_AbsentInputGivesEmptyMapping ==
    /\ (gpc = "returned" /\ (eye_gaze_df.is_none \/ eye_gaze_df.rows = <<>>)) =>
          DOMAIN gaze_metrics = {}
    /\ (hpc = "returned" /\ (hand_df.is_none \/ hand_df.rows = <<>>)) =>
          DOMAIN hand_metrics = {}
    /\ rpc = "returned" =>
          /\ DOMAIN mps_report = {"eye_tracking", "hand_tracking", "combined"}
          /\ eye_gaze_df.is_none => DOMAIN mps_report.eye_tracking = {}
          /\ hand_df.is_none => DOMAIN mps_report.hand_tracking = {}

\* a gaze table without rows and no hand table, all three calls returned
C20_Witness ==
    /\ gpc = "returned" /\ hpc = "returned" /\ rpc = "returned"
    /\ ~eye_gaze_df.is_none /\ eye_gaze_df.rows = <<>>
    /\ hand_df.is_none
    /\ DOMAIN gaze_metrics = {}
    /\ DOMAIN mps_report.hand_tracking = {}

GazeReturned == gpc = "returned"

GazeTrack == ~eye_gaze_df.is_none /\ Len(eye_gaze_df.rows) > 0

\* C21: for every non-empty gaze track, a single sample included,
\* gaze_focus_consistency is a number in (0,1] and gaze_stability a number
\* in [0,10]; neither is NaN.
C21_GazeScoresAreNumbers ==
    (GazeReturned /\ GazeTrack) =>
        /\ ~gaze_metrics["gaze_focus_consistency"].nan
        /\ gaze_metrics["gaze_focus_consistency"].v > 0
        /\ gaze_metrics["gaze_focus_consistency"].v <= 1000
        /\ ~gaze_metrics["gaze_stability"].nan
        /\ gaze_metrics["gaze_stability"].v >= 0
        /\ gaze_metrics["gaze_stability"].v <= 10000

\* the pitch changes of a track that exceed 0.1 rad, counted from the pitch
\* column alone
LargePitchChanges(rows) ==
    Cardinality({i \in 1..(Len(rows) - 1) :
        \/ rows[i + 1].pitch_rads_cpf - rows[i].pitch_rads_cpf > 100
        \/ rows[i].pitch_rads_cpf - rows[i + 1].pitch_rads_cpf > 100})

\* C25: saccades_per_second = count / (n/10), the count being the number
\* of consecutive pairs whose absolute pitch change is strictly above
\* 0.1 rad; yaw changes and a pitch change of exactly 0.1 do not count.
C25_SaccadesCountPitchOnly ==
    (GazeReturned /\ GazeTrack) =>
        gaze_metrics["saccades_per_second"] =
            Fl((LargePitchChanges(eye_gaze_df.rows) * 10000)
                  \div Len(eye_gaze_df.rows))

\* three samples: a pitch change of exactly 0.1 with the yaw at rest, then
\* a pitch change of 0.15 with the yaw turning; one saccade in 0.3 s
C25_Witness ==
    /\ GazeReturned
    /\ eye_gaze_df.rows = <<GazeRow(0, 0, 0, 500), GazeRow(100, 0, 0, 1000),
                            GazeRow(250, 300, 300, 500)>>
    /\ gaze_metrics["saccades_per_second"] = Fl(3333)

\* C30: for every non-empty gaze track saccades_per_second lies in
\* [0, 10): at most n - 1 of the n samples have a predecessor.
C30_SaccadeRateBelowSamplingRate ==
    (GazeReturned /\ GazeTrack) =>
        /\ ~gaze_metrics["saccades_per_second"].nan
        /\ gaze_metrics["saccades_per_second"].v >= 0
        /\ gaze_metrics["saccades_per_second"].v < 10000

\* every pair of consecutive samples is a saccade
C30_Witness ==
    /\ GazeReturned
    /\ Len(eye_gaze_df.rows) >= 2
    /\ LargePitchChanges(eye_gaze_df.rows) = Len(eye_gaze_df.rows) - 1
    /\ gaze_metrics["saccades_per_second"].v > 0

-----------------------------------------------------------------------------
(* Further properties of the motion and the hand analyzer                  *)

\* entry k of the list is the mean absolute value of the k-th of the
\* contiguous windows of size w of the series t, and that window is full
FullWindowMean(t, w, k, entry) ==
    /\ k * w <= Len(t)
    /\ entry = Mean(AbsAll(SubSeq(t, (k - 1) * w + 1, k * w)))

\* C22: tremor_per_frame holds, in order, the mean absolute values of the
\* contiguous non-overlapping windows of one fixed size of the filtered
\* series, cut to num_frames entries; a trailing partial window gives no
\* entry.
C22_TremorWindowsAreContiguous ==
    (MotionReturned /\ locals.filtered /\ aria_data.num_frames >= 1) =>
        LET t == TremorSignal(AccelMagnitudes(aria_data.imu_data))
            list == metrics.motion.tremor_per_frame
        IN  \E w \in 1..Len(t) :
                /\ Len(list) = Min(aria_data.num_frames, Len(t) \div w)
                /\ \A k \in 1..Len(list) : FullWindowMean(t, w, k, list[k])

\* C24: hand_tremor is the mean absolute value of the high-pass filtered
\* velocity series exactly when that series has at least 100 samples, and
\* 0.0 for every shorter series.
C24_HandTremorFilteredFrom100 ==
    (HandReturned /\ "hand_tremor" \in DOMAIN hand_metrics
        /\ \A i \in 1..Len(hand_locals.used) :
              ~hand_locals.used[i].x.nan /\ ~hand_locals.used[i].y.nan
              /\ ~hand_locals.used[i].z.nan) =>
        LET velocities == Values(Velocities(Distances(hand_locals.used)))
        IN  hand_metrics["hand_tremor"] =
              (IF Len(velocities) >= 100
               THEN Fl(Mean(AbsAll(Sosfilt(ButterHp02,
                          [i \in 1..Len(velocities) |-> velocities[i] * 10]))))
               ELSE Fl(0))

C23_FrameDifferencesCapped ==
    (StabilityReturned /\ Len(aria_data.rgb_frames) >= 2) =>
        LET frames == aria_data.rgb_frames
            count == IF Len(frames) - 1 < 49 THEN Len(frames) - 1 ELSE 49
            diffs == [i \in 1..count |-> FrameDiff(frames[i], frames[i + 1])]
        IN  /\ metrics.stability.frame_jitter = Std(diffs)
            /\ metrics.stability.visual_stability =
                  (IF 1000 - Std(diffs) \div 10 > 0
                   THEN 1000 - Std(diffs) \div 10 ELSE 0)

\* more than 50 frames, the frames behind the cap unlike the ones before
\* it, and a jitter that is not zero
C23_Witness ==
    /\ StabilityReturned
    /\ Len(aria_data.rgb_frames) > 51
    /\ aria_data.rgb_frames[51] # aria_data.rgb_frames[50]
    /\ aria_data.rgb_frames[52] # aria_data.rgb_frames[49]
    /\ metrics.stability.frame_jitter > 0

\* C27: in batch mode a recording is printed as a success only if its
\* report was generated; a missing file or a loader that returns no data
\* is not printed as a success.
C27_SuccessMeansReport ==
    \A k \in 1..Len(batch_log) :
        batch_log[k].printed = "success" =>
            /\ \E j \in 1..Len(batch_log[k].steps) : batch_log[k].steps[j] = "report"
            /\ recording_files[batch_log[k].recording] \notin {"missing", "unloadable"}

\* the positions in step_log of the calls named step
StepPositions(step) == { k \in 1..Len(step_log) : step_log[k] = step }

\* C28: process_single_recording loads, then computes the session metrics,
\* then generates the report; the report is generated at most once and
\* only after metrics that were computed from a loaded recording; when the
\* path does not exist or the loader returns None, neither the metrics nor
\* the report happen.
C28_LoadMetricsReportOrder ==
    /\ Cardinality(StepPositions("load")) <= 1
    /\ Cardinality(StepPositions("metrics")) <= 1
    /\ Cardinality(StepPositions("report")) <= 1
    /\ \A m \in StepPositions("metrics") :
          /\ \E l \in StepPositions("load") : l < m
          /\ recording.exists
          /\ recording.loader = "data"
    /\ \A r \in StepPositions("report") :
          /\ \E m \in StepPositions("metrics") : m < r
          /\ ~recording.metrics_raise
    /\ (~recording.exists \/ recording.loader = "none") =>
          /\ StepPositions("metrics") = {}
          /\ StepPositions("report") = {}
    /\ ~recording.exists => step_log = <<>>

\* a recording with an MPS folder went through every step and returned
C28_Witness ==
    /\ spc = "returned"
    /\ step_log = <<"load", "load_mps", "metrics", "mps_report", "visualize", "report">>

\* C26: a recommendation about a metric is emitted only if that metric was
\* computed from data: no Path Length, Movement Smoothness, Movement
\* Efficiency or Hand Tremor entry when the hand_tracking mapping lacks the
\* metric's key, and no Head Stability entry when the session had no IMU
\* data.
C26_RecommendedOnlyIfComputed ==
    RecommendationsReturned =>
        /\ EntriesAbout(recommendations, "Path Length") > 0
              => HandKeyPresent("path_length_m")
        /\ EntriesAbout(recommendations, "Movement Smoothness") > 0
              => HandKeyPresent("smoothness_score")
        /\ EntriesAbout(recommendations, "Movement Efficiency") > 0
              => HandKeyPresent("efficiency")
        /\ EntriesAbout(recommendations, "Hand Tremor") > 0
              => HandKeyPresent("hand_tremor")
        /\ EntriesAbout(recommendations, "Head Stability") > 0
              => dash_metrics.has_imu

====
